---------------------------- MODULE Spec2Model ----------------------------
(***************************************************************************)
(* Model of the hero-record patch machinery of the mod bundler:            *)
(*   src/src/bundler/game_data/data_types/heroes/hero_info.rs              *)
(* HeroInfo::try_merge_patches (merge engine), patch_skill_effects /       *)
(* next_effect (chain reconstruction) and HeroInfo::apply_patch with the   *)
(* per-field apply functions it dispatches to.                             *)
(*                                                                         *)
(* A path is a sequence of strings.  A map keyed by paths (Patch,          *)
(* Conflicts, the intermediate hash maps) is a function whose domain is a  *)
(* finite set of paths.  f32 values are modelled by integers (the model    *)
(* never does arithmetic on them); the kind of a value is kept.            *)
(***************************************************************************)
EXTENDS Integers, Sequences, FiniteSets, TLC

VARIABLES
    pc,        \* position of the program: "submitted", "merged", "todo", "start", "skills", "walk", "entries", "done", "panic"
    hero,      \* the HeroInfo record (self)
    patches,   \* the argument of try_merge_patches: sequence of <<mod_name, mod_changes>>
    merged,    \* the Patch returned by try_merge_patches
    unmerged,  \* the Conflicts returned by try_merge_patches
    patch,     \* the argument of apply_patch
    hero0,     \* the record as it was when apply_patch was called
    queue,     \* apply_patch: the chains still to rebuild, the one in work first
    walk,      \* patch_skill_effects: the local vector `effects`
    rest,      \* apply_patch: the paths of the patch still to dispatch, in map order
    debug,     \* whether the build has debug assertions (cfg!(debug_assertions))
    pending,   \* the patches the caller applies to the record after the present call, in order
    history    \* the calls of apply_patch that have returned: the record before each and its patch

vars == <<pc, hero, patches, merged, unmerged, patch, hero0, queue, walk, rest, debug, pending, history>>

(***************************************************************************)
(* Values and item changes                                                 *)
(***************************************************************************)
\* GameDataValue::String
Str(s) == [kind |-> "String", s |-> s, n |-> 0]
\* GameDataValue::Int
I32(n) == [kind |-> "I32", s |-> "", n |-> n]
\* GameDataValue::Float
F32(n) == [kind |-> "F32", s |-> "", n |-> n]
\* GameDataValue::Unit
Unit == [kind |-> "Unit", s |-> "", n |-> 0]
\* ItemChange::Set(value)
Set(v) == [tag |-> "Set", val |-> v]
\* ItemChange::Removed
Removed == [tag |-> "Removed", val |-> Unit]

\* Patch::new(), Conflicts::new(), HashMap::new()
EmptyMap == [x \in {} |-> 0]

\* path.get(i).map(String::as_str) == Some(s), with i counted from 0 as in the code
SegIs(path, i, s) == Len(path) > i /\ path[i + 1] = s


(***************************************************************************)
(* HeroInfo::try_merge_patches                                             *)
(***************************************************************************)
\* The (mod_name, item) pairs pushed for `path` by sources i.. of the list, in
\* the order of the list (the two nested loops that fill `changes`).
RECURSIVE Contributions(_, _, _)
Contributions(ps, path, i) ==
    IF i > Len(ps) THEN <<>>
    ELSE (IF path \in DOMAIN ps[i][2] THEN << <<ps[i][1], ps[i][2][path]>> >> ELSE <<>>)
         \o Contributions(ps, path, i + 1)

\* Faulty variant of Regroup: every new pair is put in front of the earlier ones.
RECURSIVE ContributionsReversed(_, _, _)
ContributionsReversed(ps, path, i) ==
    IF i > Len(ps) THEN <<>>
    ELSE ContributionsReversed(ps, path, i + 1)
         \o (IF path \in DOMAIN ps[i][2] THEN << <<ps[i][1], ps[i][2][path]>> >> ELSE <<>>)
RegroupReversed(ps) ==
    [path \in UNION {DOMAIN ps[i][2] : i \in 1..Len(ps)} |-> ContributionsReversed(ps, path, 1)]

\* `changes`: path -> vector of (mod_name, item), filled in submission order.
Regroup(ps) ==
    [path \in UNION {DOMAIN ps[i][2] : i \in 1..Len(ps)} |-> Contributions(ps, path, 1)]

\* First branch of the classification: a path of some skill's effect chain.
IsSkillEffects(path) == SegIs(path, 0, "skills") /\ SegIs(path, 2, "effects")

\* Second branch (reached only when the first is not taken): a path of the
\* riposte skill's effect chain.
IsRiposteEffects(path) ==
    ~IsSkillEffects(path) /\ SegIs(path, 0, "riposte_skill") /\ SegIs(path, 1, "effects")

\* The paths that reach the last two branches.
IsPlain(path) == ~IsSkillEffects(path) /\ ~IsRiposteEffects(path)

\* The orders in which a hash map with key set S may be iterated.
IterationOrders(S) ==
    {o \in [1..Cardinality(S) -> S] : \A i, j \in 1..Cardinality(S) : i # j => o[i] # o[j]}

\* vec.extend(changes) for every path of `sel`, met in iteration order `ord`.
RECURSIVE ExtendAll(_, _, _)
ExtendAll(changes, ord, sel) ==
    IF ord = <<>> THEN <<>>
    ELSE (IF Head(ord) \in sel THEN changes[Head(ord)] ELSE <<>>)
         \o ExtendAll(changes, Tail(ord), sel)

\* Faulty variant of SkillEffects: the chains of all skills are collected under each key.
SkillEffectsShared(changes, ord) ==
    [k \in {p[2] : p \in {q \in DOMAIN changes : IsSkillEffects(q)}} |->
        ExtendAll(changes, ord, {q \in DOMAIN changes : IsSkillEffects(q)})]

\* `skill_effects`: skill key (path[1]) -> all pairs of all paths of its chain.
SkillEffects(changes, ord) ==
    [k \in {p[2] : p \in {q \in DOMAIN changes : IsSkillEffects(q)}} |->
        ExtendAll(changes, ord, {q \in DOMAIN changes : IsSkillEffects(q) /\ q[2] = k})]

\* `riposte_effects`
RiposteEffects(changes, ord) ==
    ExtendAll(changes, ord, {q \in DOMAIN changes : IsRiposteEffects(q)})

\* Faulty variant of PlainMerged: the first change is accepted whatever the number of sources.
PlainMergedAlways(changes) ==
    [p \in {q \in DOMAIN changes : IsPlain(q)} |-> changes[p][1][2]]

\* merged.insert(path, the only change) for plain paths with changes.len() == 1
PlainMerged(changes) ==
    [p \in {q \in DOMAIN changes : IsPlain(q) /\ Len(changes[q]) = 1} |-> changes[p][1][2]]

\* Faulty variant of PlainUnmerged: a single change is recorded as a conflict too.
PlainUnmergedAlways(changes) ==
    [p \in {q \in DOMAIN changes : IsPlain(q)} |-> changes[p]]

\* unmerged.entry(path).or_default().push(change) for every change of the
\* other plain paths
PlainUnmerged(changes) ==
    [p \in {q \in DOMAIN changes : IsPlain(q) /\ Len(changes[q]) # 1} |-> changes[p]]

SkillPath(k) == <<"skills", k, "effects">>
RipostePath == <<"riposte_skill", "effects">>


\* The loop over skill_effects, merged side: effects.len() == 1
ChainMerged(se) ==
    [p \in {SkillPath(k) : k \in {j \in DOMAIN se : Len(se[j]) = 1}} |-> se[p[2]][1][2]]

\* The loop over skill_effects, unmerged side
ChainUnmerged(se) ==
    [p \in {SkillPath(k) : k \in {j \in DOMAIN se : Len(se[j]) # 1}} |-> se[p[2]]]

\* The riposte chain, merged side: riposte_effects.len() == 1
RiposteMerged(re) == IF Len(re) = 1 THEN RipostePath :> re[1][2] ELSE EmptyMap

\* The riposte chain, unmerged side: every other length, 0 included
RiposteUnmerged(re) == IF Len(re) = 1 THEN EmptyMap ELSE RipostePath :> re

\* try_merge_patches(self, patches), `ord` being the order in which the hash
\* map `changes` is iterated.  A later insert replaces an earlier one (@@
\* keeps its left argument's value).
TryMergePatches(ps, ord) ==
    LET changes == Regroup(ps)
        se == SkillEffects(changes, ord)
        re == RiposteEffects(changes, ord)
    IN  [merged   |-> RiposteMerged(re) @@ ChainMerged(se) @@ PlainMerged(changes),
         unmerged |-> RiposteUnmerged(re) @@ ChainUnmerged(se) @@ PlainUnmerged(changes)]

(***************************************************************************)
(* Strings: format!("{}_{}", name, level), str::split('_'), str::parse     *)
(***************************************************************************)
\* Most pieces (separated by '_') of a skill name of the model; a key has one more.
MaxNamePieces == 2

\* The pieces without '_' that skill names and keys are made of.
Atoms == {"a", "1", "2"}

\* The string whose split('_') yields the pieces p.
RECURSIVE Join(_)
Join(p) == IF Len(p) = 1 THEN p[1] ELSE p[1] \o "_" \o Join(Tail(p))

\* s.split('_') collected: the pieces of s between the '_' characters.  The
\* strings of the model that are not joined from Atoms contain no '_'.
Split(s) ==
    IF \E p \in UNION {[1..n -> Atoms] : n \in 1..(MaxNamePieces + 1)} : Join(p) = s
    THEN CHOOSE p \in UNION {[1..n -> Atoms] : n \in 1..(MaxNamePieces + 1)} : Join(p) = s
    ELSE <<s>>

\* s.parse::<i32>() / s.parse::<usize>() on the numerals of the model:
\* <<TRUE, n>>, or <<FALSE, 0>> when s is not a numeral.
ParseInt(s) ==
    IF \E n \in 0..9 : ToString(n) = s
    THEN <<TRUE, CHOOSE n \in 0..9 : ToString(n) = s>>
    ELSE <<FALSE, 0>>


\* format!("{}_{}", name, level)
SkillKey(name, level) == name \o "_" \o ToString(level)

(***************************************************************************)
(* Chain reconstruction: next_effect, patch_skill_effects                  *)
(***************************************************************************)
\* Option<String> results, and a panic
NoneR == [res |-> "None", v |-> ""]
SomeR(s) == [res |-> "Some", v |-> s]
PanicR == [res |-> "Panic", v |-> ""]

\* Faulty variant of NextEffect: a Removed entry is not taken as the end of the chain.
NextEffectNoEnd(prev, orig, p, prefix) ==
    LET key == Append(prefix, prev)
        idxs == {i \in 1..Len(orig) : orig[i] = prev}
        first == CHOOSE i \in idxs : \A j \in idxs : i <= j
    IN  IF key \in DOMAIN p /\ p[key].tag = "Set"
        THEN (IF p[key].val.kind = "String" THEN SomeR(p[key].val.s) ELSE PanicR)
        ELSE IF idxs # {} /\ first + 1 <= Len(orig) THEN SomeR(orig[first + 1]) ELSE NoneR

\* next_effect(prev, orig_effects, patch, prefix)
NextEffect(prev, orig, p, prefix) ==
    LET key == Append(prefix, prev)
        idxs == {i \in 1..Len(orig) : orig[i] = prev}
        first == CHOOSE i \in idxs : \A j \in idxs : i <= j
    IN  IF key \in DOMAIN p
        THEN IF p[key].tag = "Removed" THEN NoneR
             ELSE IF p[key].val.kind = "String" THEN SomeR(p[key].val.s) ELSE PanicR
        ELSE IF idxs # {} /\ first + 1 <= Len(orig) THEN SomeR(orig[first + 1]) ELSE NoneR

\* The prefix of patch_skill_effects after "effect" is chained to it.
EffectPrefix(prefix) == Append(prefix, "effect")

\* `start` of patch_skill_effects (the start marker is not Removed here)
StartEffect(orig, p, prefix) ==
    IF prefix \in DOMAIN p
    THEN IF p[prefix].val.kind = "String" THEN SomeR(p[prefix].val.s) ELSE PanicR
    ELSE IF orig # <<>> THEN SomeR(orig[1]) ELSE NoneR

\* A chain to rebuild: one skill of self.skills, or self.riposte_skill.
SkillTarget(key) == [kind |-> "skill", key |-> key]
RiposteTarget == [kind |-> "riposte", key |-> <<"", 0>>]

\* The prefix apply_patch hands to patch_skill_effects for a target.
TargetPrefix(t) ==
    IF t.kind = "skill" THEN <<"skills", SkillKey(t.key[1], t.key[2])>> ELSE <<"riposte_skill">>

TargetSkill(h, t) == IF t.kind = "skill" THEN h.skills[t.key] ELSE h.riposte_skill

\* skill.effects = e
SetEffects(h, t, e) ==
    IF t.kind = "skill"
    THEN [h EXCEPT !.skills[t.key].effects = e]
    ELSE [h EXCEPT !.riposte_skill.effects = e]

(***************************************************************************)
(* The per-field apply functions.  Each yields [ok, hero]: ok = FALSE is a *)
(* panic, and hero is the record as the call leaves it.                    *)
(***************************************************************************)
Done(h) == [ok |-> TRUE, hero |-> h]
Panic(h) == [ok |-> FALSE, hero |-> h]

\* change.unwrap_set().unwrap_<kind>() and change.into_option().map(unwrap_<kind>)
\* do not panic on a Set of that kind
IsSetOf(change, kind) == change.tag = "Set" /\ change.val.kind = kind

\* Faulty variant of RemoveFirst: the last element equal to key is removed.
RemoveLast(list, key) ==
    LET pos == CHOOSE i \in 1..Len(list) : list[i] = key /\ \A j \in (i + 1)..Len(list) : list[j] # key
    IN  SubSeq(list, 1, pos - 1) \o SubSeq(list, pos + 1, Len(list))

\* list.remove(pos) with pos the position of the first element equal to key
RemoveFirst(list, key) ==
    LET pos == CHOOSE i \in 1..Len(list) : list[i] = key /\ \A j \in 1..(i - 1) : list[j] # key
    IN  SubSeq(list, 1, pos - 1) \o SubSeq(list, pos + 1, Len(list))

\* Faulty variant of PatchList: a remove takes out every element equal to the key.
PatchListRemoveAll(list, path, change) ==
    LET key == path[Len(path)]
    IN  IF change.tag = "Set"
        THEN IF change.val.kind = "Unit"
             THEN [ok |-> TRUE, list |-> Append(list, key)]
             ELSE [ok |-> FALSE, list |-> list]
        ELSE IF \E i \in 1..Len(list) : list[i] = key
             THEN [ok |-> TRUE, list |-> SelectSeq(list, LAMBDA x : x # key)]
             ELSE [ok |-> FALSE, list |-> list]

\* patch_list(list, path, change): [ok, list]
PatchList(list, path, change) ==
    LET key == path[Len(path)]
    IN  IF change.tag = "Set"
        THEN IF change.val.kind = "Unit"
             THEN [ok |-> TRUE, list |-> Append(list, key)]
             ELSE [ok |-> FALSE, list |-> list]
        ELSE IF \E i \in 1..Len(list) : list[i] = key
             THEN [ok |-> TRUE, list |-> RemoveFirst(list, key)]
             ELSE [ok |-> FALSE, list |-> list]

ResistanceNames == {"stun", "poison", "bleed", "disease", "move", "debuff", "death_blow", "trap"}

\* Faulty variant of ResistancesApply: every arm assigns self.stun.
ResistancesApplyStun(h, path, change) ==
    IF Len(path) = 2 /\ IsSetOf(change, "F32") /\ path[2] \in ResistanceNames
    THEN Done([h EXCEPT !.resistances["stun"] = change.val.n])
    ELSE Panic(h)

\* Resistances::apply
ResistancesApply(h, path, change) ==
    IF Len(path) = 2 /\ IsSetOf(change, "F32") /\ path[2] \in ResistanceNames
    THEN Done([h EXCEPT !.resistances[path[2]] = change.val.n])
    ELSE Panic(h)

\* The number of weapons and of armours of a hero: [Weapon; 5], [Armour; 5]
BankSize == 5

\* The kind of the value each sub-field of a weapon holds.
WeaponKind == [atk |-> "F32", crit |-> "F32", spd |-> "I32"] @@ ("dmg min" :> "I32") @@ ("dmg max" :> "I32")

\* The field of the Weapon struct that each arm of Weapons::apply assigns.
WeaponTarget == [atk |-> "atk", crit |-> "atk", spd |-> "spd"] @@ ("dmg min" :> "dmg min") @@ ("dmg max" :> "dmg max")

\* Weapons::apply
WeaponsApply(h, path, change) ==
    LET index == ParseInt(path[2])
    IN  IF Len(path) >= 3 /\ index[1] /\ path[3] \in DOMAIN WeaponKind
           /\ index[2] < BankSize /\ IsSetOf(change, WeaponKind[path[3]])
        THEN Done([h EXCEPT !.weapons[index[2]][WeaponTarget[path[3]]] = change.val.n])
        ELSE Panic(h)

\* The kind of the value each sub-field of an armour holds.
ArmourKind == [def |-> "F32", prot |-> "F32", hp |-> "I32", spd |-> "I32"]


\* Armours::apply
ArmoursApply(h, path, change) ==
    LET index == ParseInt(path[2])
    IN  IF Len(path) >= 3 /\ index[1] /\ path[3] \in DOMAIN ArmourKind
           /\ index[2] < BankSize /\ IsSetOf(change, ArmourKind[path[3]])
        THEN Done([h EXCEPT !.armours[index[2]][path[3]] = change.val.n])
        ELSE Panic(h)

\* map.insert(key, s) / map.remove(&key) on a HashMap<String, _>
MapInsert(m, key, v) == (key :> v) @@ m
MapRemove(m, key) == [k \in DOMAIN m \ {key} |-> m[k]]

\* Skill::apply on a skill: [ok, skill]
SkillApply(skill, path, change) ==
    LET at == IF path[1] = "skills" THEN 3 ELSE 2
    IN  IF Len(path) < at \/ (change.tag = "Set" /\ change.val.kind # "String")
        THEN [ok |-> FALSE, skill |-> skill]
        ELSE [ok |-> TRUE,
              skill |-> [skill EXCEPT !.other =
                            IF change.tag = "Set"
                            THEN MapInsert(skill.other, path[at], change.val.s)
                            ELSE MapRemove(skill.other, path[at])]]

\* The (name, level) that Skills::apply reads from path[1]: the first two
\* pieces of split('_'); ok = FALSE when there is no second piece or it is
\* not a number.
ParsedSkillKey(seg) ==
    LET pieces == Split(seg)
        level == IF Len(pieces) >= 2 THEN ParseInt(pieces[2]) ELSE <<FALSE, 0>>
    IN  [ok |-> level[1], key |-> <<pieces[1], level[2]>>]

\* Skills::apply
SkillsApply(h, path, change) ==
    LET parsed == IF Len(path) >= 2 THEN ParsedSkillKey(path[2]) ELSE [ok |-> FALSE, key |-> <<"", 0>>]
    IN  IF parsed.ok /\ parsed.key \in DOMAIN h.skills
        THEN LET r == SkillApply(h.skills[parsed.key], path, change)
             IN  [ok |-> r.ok, hero |-> [h EXCEPT !.skills[parsed.key] = r.skill]]
        ELSE Panic(h)

\* self.riposte_skill.apply(path, change)
RiposteApply(h, path, change) ==
    LET r == SkillApply(h.riposte_skill, path, change)
    IN  [ok |-> r.ok, hero |-> [h EXCEPT !.riposte_skill = r.skill]]

\* MoveSkill::apply
MoveSkillApply(h, path, change) ==
    IF Len(path) >= 2 /\ path[2] \in {"forward", "backward"} /\ IsSetOf(change, "I32")
    THEN Done([h EXCEPT !.move_skill[path[2]] = change.val.n])
    ELSE Panic(h)

\* patch_list(&mut self.tags, path, change)
TagsApply(h, path, change) ==
    LET r == PatchList(h.tags, path, change)
    IN  [ok |-> r.ok, hero |-> [h EXCEPT !.tags = r.list]]

\* patch_list(&mut self.extra_stack_limit, path, change)
ExtraStackLimitApply(h, path, change) ==
    LET r == PatchList(h.extra_stack_limit, path, change)
    IN  [ok |-> r.ok, hero |-> [h EXCEPT !.extra_stack_limit = r.list]]

DeathsDoorLists == {"buffs", "recovery_buffs", "recovery_heart_attack_buffs"}

\* DeathsDoor::apply; dbg: the build has debug assertions.  The two
\* debug_assert lines come first: the length, and path[0] against "move_skill".
DeathsDoorApply(h, path, change, dbg) ==
    IF dbg /\ (Len(path) # 3 \/ path[1] # "move_skill") THEN Panic(h)
    ELSE IF Len(path) >= 2 /\ path[2] \in DeathsDoorLists
    THEN LET r == PatchList(h.deaths_door[path[2]], path, change)
         IN  [ok |-> r.ok, hero |-> [h EXCEPT !.deaths_door[path[2]] = r.list]]
    ELSE Panic(h)

\* map.entry(key).or_default()
OrDefault(m, key) == IF key \in DOMAIN m THEN m ELSE (key :> <<>>) @@ m

\* Modes::apply and Mode::apply; the entry made by or_default stays when
\* patch_list panics.
ModesApply(h, path, change) ==
    IF Len(path) >= 2 /\ path[2] \in DOMAIN h.modes /\ Len(path) = 4
    THEN LET mode == OrDefault(h.modes[path[2]], path[3])
             r == PatchList(mode[path[3]], path, change)
         IN  [ok |-> r.ok, hero |-> [h EXCEPT !.modes[path[2]] = [mode EXCEPT ![path[3]] = r.list]]]
    ELSE Panic(h)

\* Incompatibilities::apply
IncompatibilitiesApply(h, path, change) ==
    IF Len(path) = 3
    THEN LET map == OrDefault(h.incompatible_party_member, path[2])
             r == PatchList(map[path[2]], path, change)
         IN  [ok |-> r.ok, hero |-> [h EXCEPT !.incompatible_party_member = [map EXCEPT ![path[2]] = r.list]]]
    ELSE Panic(h)

\* DeathReaction::apply
DeathReactionApply(h, path, change) ==
    IF Len(path) = 2
    THEN LET r == PatchList(h.death_reaction, path, change)
         IN  [ok |-> r.ok, hero |-> [h EXCEPT !.death_reaction = r.list]]
    ELSE Panic(h)

\* The "other" arm of apply_patch: first = path.remove(1), then second =
\* path.remove(2) on the shortened path, which is the fourth segment.
OtherApply(h, path, change) ==
    IF Len(path) < 4 \/ (change.tag = "Set" /\ change.val.kind # "String") THEN Panic(h)
    ELSE LET key == <<path[2], path[4]>>
         IN  IF change.tag = "Set"
             THEN LET map == OrDefault(h.other, key)
                  IN  Done([h EXCEPT !.other = [map EXCEPT ![key] = Append(map[key], change.val.s)]])
             ELSE Done([h EXCEPT !.other = MapRemove(h.other, key)])

\* Faulty variant of Dispatch: an entry with an unknown first segment is passed over.
DispatchSkipUnknown(h, path, change, dbg) ==
    IF path = <<>> THEN Panic(h)
    ELSE CASE path[1] = "resistances" -> ResistancesApply(h, path, change)
           [] path[1] = "weapons" -> WeaponsApply(h, path, change)
           [] path[1] = "armours" -> ArmoursApply(h, path, change)
           [] path[1] = "skills" -> SkillsApply(h, path, change)
           [] path[1] = "riposte_skill" -> RiposteApply(h, path, change)
           [] path[1] = "move_skill" -> MoveSkillApply(h, path, change)
           [] path[1] = "tags" -> TagsApply(h, path, change)
           [] path[1] = "extra_stack_limit" -> ExtraStackLimitApply(h, path, change)
           [] path[1] = "deaths_door" -> DeathsDoorApply(h, path, change, dbg)
           [] path[1] = "modes" -> ModesApply(h, path, change)
           [] path[1] = "incompatible_party_member" -> IncompatibilitiesApply(h, path, change)
           [] path[1] = "death_reaction" -> DeathReactionApply(h, path, change)
           [] path[1] = "other" -> OtherApply(h, path, change)
           [] OTHER -> Done(h)

\* One turn of the loop `for (mut path, change) in patch` of apply_patch.
Dispatch(h, path, change, dbg) ==
    IF path = <<>> THEN Panic(h)
    ELSE CASE path[1] = "resistances" -> ResistancesApply(h, path, change)
           [] path[1] = "weapons" -> WeaponsApply(h, path, change)
           [] path[1] = "armours" -> ArmoursApply(h, path, change)
           [] path[1] = "skills" -> SkillsApply(h, path, change)
           [] path[1] = "riposte_skill" -> RiposteApply(h, path, change)
           [] path[1] = "move_skill" -> MoveSkillApply(h, path, change)
           [] path[1] = "tags" -> TagsApply(h, path, change)
           [] path[1] = "extra_stack_limit" -> ExtraStackLimitApply(h, path, change)
           [] path[1] = "deaths_door" -> DeathsDoorApply(h, path, change, dbg)
           [] path[1] = "modes" -> ModesApply(h, path, change)
           [] path[1] = "incompatible_party_member" -> IncompatibilitiesApply(h, path, change)
           [] path[1] = "death_reaction" -> DeathReactionApply(h, path, change)
           [] path[1] = "other" -> OtherApply(h, path, change)
           [] OTHER -> Panic(h)

(***************************************************************************)
(* Flattening: the to_map functions.  A DataMap is a function from paths   *)
(* to values.                                                              *)
(***************************************************************************)
\* map.extend_prefixed(prefix, inner), on an empty map: every path of inner
\* with prefix put in front of it.
ExtendPrefixed(prefix, inner) ==
    [p \in {<<prefix>> \o q : q \in DOMAIN inner} |-> inner[Tail(p)]]

\* The map that holds the entries of all the maps of S (their domains are disjoint).
MapUnion(S) ==
    [p \in UNION {DOMAIN m : m \in S} |-> (CHOOSE m \in S : p \in DOMAIN m)[p]]

\* Vec<String>::to_set: a unit-valued leaf keyed by each element.
ToSet(list) == [p \in {<<list[i]>> : i \in 1..Len(list)} |-> Unit]

\* Vec<String>::to_map of a chain: the start marker holds the first element,
\* the leaf keyed by an element holds the element after it.
ChainToMap(list) ==
    [p \in (IF list = <<>> THEN {} ELSE {<<>>}) \cup {<<list[i]>> : i \in 1..(Len(list) - 1)} |->
        IF p = <<>> THEN Str(list[1])
        ELSE Str(list[(CHOOSE i \in 1..(Len(list) - 1) :
                          list[i] = p[1] /\ \A j \in (i + 1)..(Len(list) - 1) : list[j] # p[1]) + 1])]

\* f32 / i32 .into() a value of the kind of the sub-field
Scalar(kind, n) == IF kind = "F32" THEN F32(n) ELSE I32(n)

\* Resistances::to_map
ResistancesToMap(r) == [p \in {<<k>> : k \in ResistanceNames} |-> F32(r[p[1]])]

\* Weapon::to_map
WeaponToMap(w) == [p \in {<<f>> : f \in DOMAIN WeaponKind} |-> Scalar(WeaponKind[p[1]], w[p[1]])]

\* Weapons::to_map
WeaponsToMap(ws) == MapUnion({ExtendPrefixed(ToString(i), WeaponToMap(ws[i])) : i \in DOMAIN ws})

\* Armour::to_map
ArmourToMap(a) == [p \in {<<f>> : f \in DOMAIN ArmourKind} |-> Scalar(ArmourKind[p[1]], a[p[1]])]

\* Armours::to_map
ArmoursToMap(as) == MapUnion({ExtendPrefixed(ToString(i), ArmourToMap(as[i])) : i \in DOMAIN as})

\* Skill::to_map: the chain under "effects", then out.extend(other), whose
\* entries replace those already there.
SkillToMap(skill) ==
    [p \in {<<k>> : k \in DOMAIN skill.other} |-> Str(skill.other[p[1]])]
        @@ ExtendPrefixed("effects", ChainToMap(skill.effects))

\* Skills::to_map
SkillsToMap(skills) ==
    MapUnion({ExtendPrefixed(SkillKey(k[1], k[2]), SkillToMap(skills[k])) : k \in DOMAIN skills})

\* MoveSkill::to_map
MoveSkillToMap(m) == [p \in {<<"forward">>, <<"backward">>} |-> I32(m[p[1]])]

\* DeathsDoor::to_map
DeathsDoorToMap(d) == MapUnion({ExtendPrefixed(f, ToSet(d[f])) : f \in DeathsDoorLists})

\* Mode::to_map and Incompatibilities::to_map: a map from keys to lists
ListsToMap(m) == MapUnion({ExtendPrefixed(k, ToSet(m[k])) : k \in DOMAIN m})

\* Modes::to_map
ModesToMap(modes) == MapUnion({ExtendPrefixed(k, ListsToMap(modes[k])) : k \in DOMAIN modes})

\* The loop over self.other of HeroInfo::to_map
OtherToMap(other) ==
    MapUnion({ExtendPrefixed(k[1], ExtendPrefixed(k[2], ToSet(other[k]))) : k \in DOMAIN other})

\* HeroInfo::to_map
ToMap(h) ==
    ExtendPrefixed(h.id,
        MapUnion({ ExtendPrefixed("resistances", ResistancesToMap(h.resistances)),
                   ExtendPrefixed("weapons", WeaponsToMap(h.weapons)),
                   ExtendPrefixed("armours", ArmoursToMap(h.armours)),
                   ExtendPrefixed("skills", SkillsToMap(h.skills)),
                   ExtendPrefixed("riposte_skill", SkillToMap(h.riposte_skill)),
                   ExtendPrefixed("move_skill", MoveSkillToMap(h.move_skill)),
                   ExtendPrefixed("tags", ToSet(h.tags)),
                   ExtendPrefixed("extra_stack_limit", ToSet(h.extra_stack_limit)),
                   ExtendPrefixed("deaths_door", DeathsDoorToMap(h.deaths_door)),
                   ExtendPrefixed("modes", ModesToMap(h.modes)),
                   ExtendPrefixed("incompatible_party_member", ListsToMap(h.incompatible_party_member)),
                   ExtendPrefixed("death_reaction", ToSet(h.death_reaction)),
                   ExtendPrefixed("other", OtherToMap(h.other)) }))

(***************************************************************************)
(* The order of a Patch (a map ordered by path): paths compare segment by  *)
(* segment, strings by their bytes.                                        *)
(***************************************************************************)
\* The segments of the model's patches that are ever compared, in byte order.
SegmentOrder ==
    <<"0", "1", "2", "3", "4", "5", "9", "A", "B", "C", "X", "Y", "a_1", "a_2", "absent",
      "armours", "atk", "b", "backward", "bleed", "buffs", "crit", "d", "dd1",
      "death_blow", "death_reaction", "deaths_door", "debuff", "def", "disease", "dmg",
      "dmg max", "dmg min", "dr", "effect", "effects", "extra_stack_limit", "forward",
      "holy", "hp", "incompatible_party_member", "ipm", "k", "limit", "m1", "modes",
      "move", "move_skill", "new", "nokey", "o1", "o2", "other", "ov", "poison", "prot",
      "recovery_buffs", "recovery_heart_attack_buffs", "resistances", "riposte_skill",
      "skills", "spd", "stun", "t", "tags", "tagx", "trap", "unknown", "v", "w",
      "weapons", "x", "zz">>

Rank(seg) == CHOOSE i \in 1..Len(SegmentOrder) : SegmentOrder[i] = seg

RECURSIVE PathLess(_, _)
PathLess(p, q) ==
    IF p = <<>> THEN q # <<>>
    ELSE IF q = <<>> THEN FALSE
    ELSE IF Head(p) = Head(q) THEN PathLess(Tail(p), Tail(q))
    ELSE Rank(Head(p)) < Rank(Head(q))

\* The paths of S in the order in which `for (path, change) in patch` meets them.
SortedPaths(S) ==
    CHOOSE o \in IterationOrders(S) : \A i, j \in 1..Cardinality(S) : i < j => PathLess(o[i], o[j])

(***************************************************************************)
(* Bounds of the model and the inputs drawn within them                    *)
(***************************************************************************)
\* Longest original effect chain of a hero.
MaxChain == 3
\* Length at which the model stops following a walk of patch_skill_effects.
MaxWalk == 5
\* Most entries of a patch given to apply_patch.
MaxPatchEntries == 2
\* Most edits, over all sources, of an input of try_merge_patches.
MaxEdits == 3
\* Longest list of tags of a hero.
MaxList == 3

RECURSIVE SubsetsUpTo(_, _)
SubsetsUpTo(S, k) ==
    IF k = 0 THEN {{}}
    ELSE LET prev == SubsetsUpTo(S, k - 1) IN prev \cup {s \cup {e} : s \in prev, e \in S}

SeqsUpTo(S, k) == UNION {[1..n -> S] : n \in 0..k}

\* Elements of the original chains; the elements a patch has an entry for
\* (one of the chains, one foreign) and those it sets (likewise).
ChainElems == {"A", "B", "C"}
PatchKeys == {"A", "X"}
PatchElems == {"C", "X"}
Chains == SeqsUpTo(ChainElems, MaxChain)

\* Skill names and levels, and the keys (name, level) of self.skills.
NameAtoms == {"a", "2"}
Names == {Join(p) : p \in SeqsUpTo(NameAtoms, MaxNamePieces) \ {<<>>}}
Levels == {1, 2}
SkillKeySets == SubsetsUpTo(Names \X Levels, 2) \ {{}}

Weapon0 == [atk |-> 1, crit |-> 4, spd |-> 5] @@ ("dmg min" :> 2) @@ ("dmg max" :> 3)
Armour0 == [def |-> 1, prot |-> 2, hp |-> 3, spd |-> 4]

\* A hero as load_raw builds it, with the given original chain for every
\* skill and the given keys of self.skills.
Hero(chain, keys) ==
    [id |-> "crusader",
     resistances |-> [k \in ResistanceNames |-> 3],
     weapons |-> [i \in 0..(BankSize - 1) |-> Weapon0],
     armours |-> [i \in 0..(BankSize - 1) |-> Armour0],
     skills |-> [k \in keys |-> [effects |-> chain, other |-> ("dmg" :> "low")]],
     riposte_skill |-> [effects |-> chain, other |-> ("dmg" :> "low")],
     move_skill |-> [forward |-> 1, backward |-> 2],
     tags |-> <<"holy">>,
     extra_stack_limit |-> <<>>,
     deaths_door |-> [buffs |-> <<"dd1">>, recovery_buffs |-> <<>>,
                      recovery_heart_attack_buffs |-> <<>>],
     modes |-> ("m1" :> ("k" :> <<"v">>)),
     incompatible_party_member |-> ("ipm" :> <<"tagx">>),
     death_reaction |-> <<"dr">>,
     other |-> (<<"o1", "o2">> :> <<"ov">>)]

BaseKeys == {<<"a", 1>>}
BaseHero == Hero(<<"A", "B">>, BaseKeys)

\* The patch with the entries S, a set of <<path, change>> with distinct paths.
PatchOf(S) == [p \in {e[1] : e \in S} |-> (CHOOSE e \in S : e[1] = p)[2]]
DistinctPaths(S) == \A e, f \in S : e[1] = f[1] => e = f

\* Patches on the chain under `prefix`: the start marker and the successor
\* entries, each removed or set to an element.
ChainEntries(prefix) ==
    ({EffectPrefix(prefix)} \cup {Append(EffectPrefix(prefix), e) : e \in PatchKeys})
        \X ({Removed} \cup {Set(Str(e)) : e \in PatchElems})
ChainPatches(prefix) ==
    {PatchOf(S) : S \in {T \in SubsetsUpTo(ChainEntries(prefix), MaxPatchEntries) : DistinctPaths(T)}}

\* Entries for every arm of the dispatch of apply_patch, accepted and fatal.
GeneralEntries ==
    { <<<<"resistances", "stun">>, Set(F32(7))>>,
      <<<<"resistances", "stun">>, Removed>>,
      <<<<"resistances", "nokey">>, Set(F32(7))>>,
      <<<<"weapons", "0", "atk">>, Set(F32(7))>>,
      <<<<"weapons", "9", "atk">>, Set(F32(7))>>,
      <<<<"armours", "1", "hp">>, Set(I32(7))>>,
      <<<<"skills", "a_1", "dmg">>, Set(Str("X"))>>,
      <<<<"skills", "zz", "dmg">>, Set(Str("X"))>>,
      <<<<"skills", "a_1", "effect", "A">>, Removed>>,
      <<<<"riposte_skill", "dmg">>, Removed>>,
      <<<<"riposte_skill", "effect">>, Set(Str("X"))>>,
      <<<<"riposte_skill", "effect">>, Set(I32(7))>>,
      <<<<"move_skill", "forward">>, Set(I32(7))>>,
      <<<<"tags", "new">>, Set(Unit)>>,
      <<<<"tags", "holy">>, Removed>>,
      <<<<"tags", "absent">>, Removed>>,
      <<<<"extra_stack_limit", "limit">>, Set(Unit)>>,
      <<<<"deaths_door", "buffs", "b">>, Set(Unit)>>,
      <<<<"modes", "m1", "k", "w">>, Set(Unit)>>,
      <<<<"modes", "m1", "new", "w">>, Removed>>,
      <<<<"incompatible_party_member", "ipm", "t">>, Set(Unit)>>,
      <<<<"death_reaction", "d">>, Set(Unit)>>,
      <<<<"other", "o1", "o2", "v">>, Set(Unit)>>,
      <<<<"other", "o1", "o2", "v">>, Set(Str("X"))>>,
      <<<<"other", "o1", "o2", "ov">>, Removed>>,
      <<<<"unknown", "x">>, Set(Unit)>> }
GeneralPatches ==
    {PatchOf(S) : S \in {T \in SubsetsUpTo(GeneralEntries, MaxPatchEntries) : DistinctPaths(T)}}

\* One set at every index (one past the bank included) and sub-field.
BankPatches ==
    {<<"weapons", ToString(i), f>> :> Set(IF WeaponKind[f] = "F32" THEN F32(7) ELSE I32(7)) :
        i \in 0..BankSize, f \in DOMAIN WeaponKind}
    \cup
    {<<"armours", ToString(i), f>> :> Set(IF ArmourKind[f] = "F32" THEN F32(7) ELSE I32(7)) :
        i \in 0..BankSize, f \in DOMAIN ArmourKind}

\* One set of a float at every resistance name.
ResistancePatches ==
    {<<"resistances", k>> :> Set(F32(v)) : k \in ResistanceNames, v \in {3, 7}}

\* One set of a new element in every list of deaths_door.
DeathsDoorPatches ==
    {<<"deaths_door", l, "b">> :> Set(Unit) : l \in DeathsDoorLists}

\* One edit of the key/value field "dmg" of the skill keyed as flattening keys it.
SkillPatches ==
    {<<"skills", SkillKey(k[1], k[2]), "dmg">> :> c : k \in Names \X Levels, c \in {Set(Str("X")), Removed}}

\* The lists of tags, and the patches of one entry on tags or on
\* extra_stack_limit keyed by a string of these lists or by another one.
ListElems == {"holy", "new"}
Lists == SeqsUpTo(ListElems, MaxList)
ListPatches ==
    {<<f, v>> :> c : f \in {"tags", "extra_stack_limit"}, v \in ListElems, c \in {Set(Unit), Removed}}

\* The inputs of try_merge_patches of the model.
Mods == {"modA", "modB", "modC"}
MergePaths ==
    { <<"resistances", "stun">>,
      <<"skills", "a_1", "effects">>,
      <<"skills", "a_1", "effects", "A">>,
      <<"skills", "a_2", "effects", "A">>,
      <<"riposte_skill", "effects", "A">> }
ChangeOptions(path) ==
    IF path[1] = "resistances" THEN {Set(F32(7)), Set(F32(8))} ELSE {Set(Str("X")), Removed}
\* The sets of (mod, path) pairs that are edited.
EditKeySets == SubsetsUpTo(Mods \X MergePaths, MaxEdits)
\* Edits: a change for each pair of S.
EditMaps(S) ==
    {f \in [S -> {Set(F32(7)), Set(F32(8)), Set(Str("X")), Removed}] :
        \A k \in S : f[k] \in ChangeOptions(k[2])}
\* The list of mods that submit the edits on S: the editing mods, in the order
\* of SubmissionOrder.  (try_merge_patches clones the names and compares none,
\* so a list in another order is this one with the mods renamed.)
SubmissionOrder == <<"modC", "modA", "modB">>
EditorLists(S) == {SelectSeq(SubmissionOrder, LAMBDA m : m \in {k[1] : k \in S})}
\* The list of change-sets in which the mods of l submit the edits f.
ChangeSets(l, f) ==
    [i \in 1..Len(l) |->
        <<l[i], [p \in {k[2] : k \in {e \in DOMAIN f : e[1] = l[i]}} |-> f[<<l[i], p>>]]>>]

(***************************************************************************)
(* The state machine                                                       *)
(***************************************************************************)
\* The variables of a call that has not begun.
NotBegun ==
    /\ merged = EmptyMap /\ unmerged = EmptyMap
    /\ queue = <<>> /\ walk = <<>> /\ rest = <<>>

\* A call of apply_patch on a hero with some original chain, with a patch on
\* the chain of the riposte skill or of the skill.  (No entry of these
\* patches, nor of those of InitSkills, reaches a debug assertion that can
\* fail, so one build stands for both.)
InitChains ==
    /\ pc = "start" /\ NotBegun /\ pending = <<>> /\ history = <<>> /\ patches = <<>> /\ debug = FALSE
    /\ \E c \in Chains :
       \E p \in ChainPatches(<<"riposte_skill">>) \cup ChainPatches(<<"skills", "a_1">>) :
            hero = Hero(c, BaseKeys) /\ hero0 = hero /\ patch = p

\* A call of apply_patch with a patch over the arms of its dispatch.
InitGeneral ==
    /\ pc = "start" /\ NotBegun /\ pending = <<>> /\ history = <<>> /\ patches = <<>> /\ debug \in BOOLEAN
    /\ \E p \in GeneralPatches \cup BankPatches \cup ResistancePatches \cup DeathsDoorPatches :
            hero = BaseHero /\ hero0 = hero /\ patch = p

\* A call of apply_patch on a hero with some skills (their chains empty), with
\* a patch on a skill.
InitSkills ==
    /\ pc = "start" /\ NotBegun /\ pending = <<>> /\ history = <<>> /\ patches = <<>> /\ debug = FALSE
    /\ \E ks \in SkillKeySets : \E p \in SkillPatches :
            hero = Hero(<<>>, ks) /\ hero0 = hero /\ patch = p

\* Two calls of apply_patch in a row on a hero with some list of tags and
\* the same list as extra_stack_limit: the patches edit these lists.
InitLists ==
    /\ pc = "start" /\ NotBegun /\ history = <<>> /\ patches = <<>> /\ debug = FALSE
    /\ \E l \in Lists : \E p, q \in ListPatches :
            /\ hero = [BaseHero EXCEPT !.tags = l, !.extra_stack_limit = l]
            /\ hero0 = hero
            /\ patch = p /\ pending = <<q>>

\* The paths at which the flattening of h holds a number.
ScalarPaths(h) == {p \in DOMAIN ToMap(h) : ToMap(h)[p].kind \in {"F32", "I32"}}

\* A call of apply_patch with a patch keyed by a path of the flattening of
\* the hero: the value flattening holds there is set again.
InitFlattened ==
    /\ pc = "start" /\ NotBegun /\ pending = <<>> /\ history = <<>> /\ patches = <<>> /\ debug = FALSE
    /\ hero = BaseHero /\ hero0 = hero
    /\ \E p \in ScalarPaths(BaseHero) : patch = (p :> Set(ToMap(BaseHero)[p]))

InitApply == InitChains \/ InitGeneral \/ InitSkills \/ InitLists \/ InitFlattened

\* A call of try_merge_patches: the list of change-sets.  (Its one debug
\* assertion, that no vector of `changes` is empty, cannot fail.)
InitMerge ==
    /\ pc = "submitted" /\ NotBegun /\ pending = <<>> /\ history = <<>> /\ debug = FALSE
    /\ \E S \in EditKeySets : \E f \in EditMaps(S) : \E l \in EditorLists(S) :
            patches = ChangeSets(l, f)
    /\ hero = BaseHero /\ hero0 = BaseHero /\ patch = EmptyMap

Init == InitApply \/ InitMerge

\* try_merge_patches, from the call to the return.  The hash map `changes` is
\* iterated in some order; the results are maps and the plain paths go to
\* them one by one, so only the order in which the paths of the chains are
\* met can show in the results, and it is the one that is chosen.
Merge ==
    /\ pc = "submitted"
    /\ \E ord \in IterationOrders({q \in DOMAIN Regroup(patches) : ~IsPlain(q)}) :
        LET r == TryMergePatches(patches, ord)
        IN  merged' = r.merged /\ unmerged' = r.unmerged
    /\ pc' = "merged"
    /\ UNCHANGED <<hero, patches, patch, hero0, queue, walk, rest, debug, pending, history>>

\* ask_for_resolve, called with the conflicts try_merge_patches has returned:
\* its body is todo!(), which aborts the call before any patch is built.
AskForResolve ==
    /\ pc = "merged" /\ unmerged # EmptyMap
    /\ pc' = "todo"
    /\ UNCHANGED <<hero, patches, merged, unmerged, patch, hero0, queue, walk, rest, debug, pending, history>>

\* The caller goes on from a merge without conflicts: resolution is skipped
\* and the merged patch is handed to apply_patch.
ApplyMerged ==
    /\ pc = "merged" /\ unmerged = EmptyMap
    /\ patch' = merged
    /\ pc' = "start"
    /\ UNCHANGED <<hero, patches, merged, unmerged, hero0, queue, walk, rest, debug, pending, history>>

\* Where apply_patch goes on when the chain in work is done.
AfterChain == IF Tail(queue) # <<>> THEN "skills" ELSE IF rest = <<>> THEN "done" ELSE "entries"

\* apply_patch is entered: the skills are to be met in some order of the hash
\* map self.skills, the riposte skill after them.
ApplyPatchBegin ==
    /\ pc = "start"
    /\ \E ord \in IterationOrders(DOMAIN hero.skills) :
        queue' = [i \in 1..Len(ord) |-> SkillTarget(ord[i])] \o <<RiposteTarget>>
    /\ rest' = SortedPaths(DOMAIN patch)
    /\ hero0' = hero
    /\ pc' = "skills"
    /\ UNCHANGED <<hero, patches, merged, unmerged, patch, walk, debug, pending, history>>

\* patch_skill_effects up to its loop, for the chain in work.
PatchSkillEffectsStart ==
    /\ pc = "skills"
    /\ LET t == Head(queue)
           prefix == EffectPrefix(TargetPrefix(t))
           start == StartEffect(TargetSkill(hero, t).effects, patch, prefix)
       IN  IF prefix \in DOMAIN patch /\ patch[prefix].tag = "Removed"
           THEN /\ hero' = SetEffects(hero, t, <<>>)
                /\ queue' = Tail(queue) /\ pc' = AfterChain /\ walk' = walk
           ELSE IF start.res = "Panic"
           THEN pc' = "panic" /\ UNCHANGED <<hero, queue, walk>>
           ELSE IF start.res = "None"
           THEN queue' = Tail(queue) /\ pc' = AfterChain /\ UNCHANGED <<hero, walk>>
           ELSE walk' = <<start.v>> /\ pc' = "walk" /\ UNCHANGED <<hero, queue>>
    /\ UNCHANGED <<patches, merged, unmerged, patch, hero0, rest, debug, pending, history>>

\* One turn of the loop of patch_skill_effects, or its end.  Of a walk beyond
\* MaxWalk elements the model keeps the last MaxWalk: such a walk has met an
\* element twice and goes round for ever, it is never stored.
PatchSkillEffectsStep ==
    /\ pc = "walk"
    /\ LET t == Head(queue)
           prefix == EffectPrefix(TargetPrefix(t))
           next == NextEffect(walk[Len(walk)], TargetSkill(hero, t).effects, patch, prefix)
       IN  IF next.res = "Some"
           THEN /\ walk' = Append(IF Len(walk) < MaxWalk THEN walk ELSE Tail(walk), next.v)
                /\ UNCHANGED <<hero, queue, pc>>
           ELSE IF next.res = "Panic"
           THEN pc' = "panic" /\ UNCHANGED <<hero, queue, walk>>
           ELSE /\ hero' = SetEffects(hero, t, walk)
                /\ walk' = <<>>
                /\ queue' = Tail(queue) /\ pc' = AfterChain
    /\ UNCHANGED <<patches, merged, unmerged, patch, hero0, rest, debug, pending, history>>

\* One turn of `for (mut path, change) in patch`, and the return after the last.
ApplyEntry ==
    /\ pc = "entries"
    /\ LET r == Dispatch(hero, Head(rest), patch[Head(rest)], debug)
       IN  /\ hero' = r.hero
           /\ IF r.ok
              THEN rest' = Tail(rest) /\ pc' = (IF Tail(rest) = <<>> THEN "done" ELSE "entries")
              ELSE rest' = rest /\ pc' = "panic"
    /\ UNCHANGED <<patches, merged, unmerged, patch, hero0, queue, walk, debug, pending, history>>

\* The caller, after a call of apply_patch has returned, calls it on the same
\* record with the next patch it has.
NextCall ==
    /\ pc = "done" /\ pending # <<>>
    /\ patch' = Head(pending) /\ pending' = Tail(pending)
    /\ history' = Append(history, [before |-> hero0, patch |-> patch])
    /\ pc' = "start"
    /\ UNCHANGED <<hero, patches, merged, unmerged, hero0, queue, walk, rest, debug>>

Next ==
    \/ Merge
    \/ AskForResolve
    \/ ApplyMerged
    \/ ApplyPatchBegin
    \/ PatchSkillEffectsStart
    \/ PatchSkillEffectsStep
    \/ ApplyEntry
    \/ NextCall

Spec == Init /\ [][Next]_vars

\* apply_patch runs on one thread from its call to its return or its abort:
\* a loop of patch_skill_effects that can take a turn takes it.
FairSpec == Spec /\ WF_vars(PatchSkillEffectsStep)

(***************************************************************************)
(* Claims on try_merge_patches.  The vocabulary below is that of the       *)
(* claims, stated on the input `patches` itself.                           *)
(***************************************************************************)
\* The positions in the list of the sources that change `path`.
Changers(path) == {i \in 1..Len(patches) : path \in DOMAIN patches[i][2]}
\* All the paths some source changes.
ChangedPaths == UNION {DOMAIN patches[i][2] : i \in 1..Len(patches)}
\* The chain a path belongs to: <<"skills", key>>, <<"riposte_skill">>, or <<>> for a non-chain path.
ChainOf(path) ==
    IF Len(path) >= 3 /\ path[1] = "skills" /\ path[3] = "effects" THEN <<"skills", path[2]>>
    ELSE IF Len(path) >= 2 /\ path[1] = "riposte_skill" /\ path[2] = "effects" THEN <<"riposte_skill">>
    ELSE <<>>
\* The chains some source edits, the edits <<i, path>> on a chain and its editing sources.
EditedChains == {ChainOf(path) : path \in ChangedPaths} \ {<<>>}
ChainEdits(c) == {e \in (1..Len(patches)) \X ChangedPaths : ChainOf(e[2]) = c /\ e[1] \in Changers(e[2])}
ChainEditors(c) == {e[1] : e \in ChainEdits(c)}
\* The path under which the result of the merge carries a chain.
ChainEntry(c) == Append(c, "effects")
\* The (source, change) pairs of the sources that change `path`, in the order of submission.
SubmittedPairs(path) ==
    LET sel == SelectSeq(patches, LAMBDA e : path \in DOMAIN e[2])
    IN  [i \in 1..Len(sel) |-> <<sel[i][1], sel[i][2][path]>>]
\* The number of positions of sequence q that hold x.
Occurrences(q, x) == Cardinality({i \in 1..Len(q) : q[i] = x})

\* C1: the set of paths of the merged patch and the set of paths of the
\* conflict set returned by try_merge_patches are disjoint, chain paths included.
C1_MergeDisjoint ==
    pc = "merged" => DOMAIN merged \cap DOMAIN unmerged = {}

\* C1 witness: a merge that returns a chain in the merged patch and a
\* non-chain path in the conflict set.
C1_Witness ==
    /\ pc = "merged"
    /\ \E p \in DOMAIN merged : ChainOf(p) # <<>>
    /\ \E p \in DOMAIN unmerged : ChainOf(p) = <<>> /\ Len(unmerged[p]) >= 2

\* C2: if exactly one source changes a non-chain path, the merged patch maps
\* the path to exactly that source's change and the conflict set has no entry
\* for the path.
C2_SingleSourceAccepted ==
    pc = "merged" =>
        \A path \in ChangedPaths :
            ChainOf(path) = <<>> /\ Cardinality(Changers(path)) = 1 =>
                /\ path \in DOMAIN merged
                /\ \A i \in Changers(path) : merged[path] = patches[i][2][path]
                /\ path \notin DOMAIN unmerged

\* C2 witness: a merge in which one source alone changes a non-chain path,
\* while other sources submit other edits.
C2_Witness ==
    /\ pc = "merged"
    /\ Len(patches) >= 2
    /\ \E path \in ChangedPaths : ChainOf(path) = <<>> /\ Cardinality(Changers(path)) = 1

\* C3: if N >= 2 sources change the same non-chain path, even to identical
\* values, the conflict set has an entry for the path with exactly the N
\* (source, change) pairs in the order of submission, and the merged patch has
\* no entry for the path.
C3_MultiSourceConflict ==
    pc = "merged" =>
        \A path \in ChangedPaths :
            ChainOf(path) = <<>> /\ Cardinality(Changers(path)) >= 2 =>
                /\ path \in DOMAIN unmerged
                /\ Len(unmerged[path]) = Cardinality(Changers(path))
                /\ unmerged[path] = SubmittedPairs(path)
                /\ path \notin DOMAIN merged

\* C3 witness: three sources change one non-chain path, two of them to the same value.
C3_Witness ==
    /\ pc = "merged"
    /\ \E path \in ChangedPaths :
        /\ ChainOf(path) = <<>>
        /\ Cardinality(Changers(path)) = 3
        /\ \E i, j \in Changers(path) : i # j /\ patches[i][2][path] = patches[j][2][path]
        /\ \E i, j \in Changers(path) : patches[i][2][path] # patches[j][2][path]

\* C4: every entry of the conflict set lists at least two (source, change)
\* pairs, and when no path and no chain is changed by more than one source
\* (with an empty list of change-sets, or no edit of the riposte chain, too)
\* the conflict set is empty.
C4_OnlyAmbiguousConflicts ==
    pc = "merged" =>
        /\ \A p \in DOMAIN unmerged : Len(unmerged[p]) >= 2
        /\ ( (/\ \A path \in ChangedPaths : Cardinality(Changers(path)) <= 1
              /\ \A c \in EditedChains : Cardinality(ChainEditors(c)) <= 1)
             => unmerged = EmptyMap )

\* C5: if exactly one source has edits on a chain, however many, every one of
\* these edits is in the merged patch and the chain has no entry in the
\* conflict set.
C5_SingleSourceChain ==
    pc = "merged" =>
        \A c \in EditedChains :
            Cardinality(ChainEditors(c)) = 1 =>
                /\ \A e \in ChainEdits(c) :
                        e[2] \in DOMAIN merged /\ merged[e[2]] = patches[e[1]][2][e[2]]
                /\ \A p \in DOMAIN unmerged : ChainOf(p) # c

\* C6: if two or more sources have edits on the same chain, the conflict set
\* has exactly one entry for the chain, the entry holds the (source, change)
\* pair of every edit of every source on the chain and nothing else, and the
\* merged patch has no edit of the chain.
C6_MultiSourceChain ==
    pc = "merged" =>
        \A c \in EditedChains :
            Cardinality(ChainEditors(c)) >= 2 =>
                /\ {p \in DOMAIN unmerged : ChainOf(p) = c} = {ChainEntry(c)}
                /\ Len(unmerged[ChainEntry(c)]) = Cardinality(ChainEdits(c))
                /\ \A e \in ChainEdits(c) :
                        LET pair == <<patches[e[1]][1], patches[e[1]][2][e[2]]>>
                        IN  Occurrences(unmerged[ChainEntry(c)], pair) =
                                Cardinality({d \in ChainEdits(c) :
                                    <<patches[d[1]][1], patches[d[1]][2][d[2]]>> = pair})
                /\ \A p \in DOMAIN merged : ChainOf(p) # c

\* C6 witness: two sources edit one skill's chain while another chain is
\* edited too.
C6_Witness ==
    /\ pc = "merged"
    /\ \E c, d \in EditedChains :
        /\ c # d
        /\ c[1] = "skills" /\ d[1] = "skills"
        /\ Cardinality(ChainEditors(c)) = 2

(***************************************************************************)
(* Claims on apply_patch.  hero0 is the record before the call, hero the   *)
(* record as the call has left it so far.                                  *)
(***************************************************************************)
\* The chains of the record: its skills and the riposte skill.
Targets == {SkillTarget(k) : k \in DOMAIN hero0.skills} \cup {RiposteTarget}
\* apply_patch has rebuilt the chain of t.
Rebuilt(t) ==
    /\ pc \in {"skills", "walk", "entries", "done", "panic"}
    /\ \A i \in 1..Len(queue) : queue[i] # t
\* apply_patch has panicked in its loop over the entries, on the entry Head(rest).
PanicOnEntry == pc = "panic" /\ queue = <<>>
\* The path of the start marker of the chain of t, and of the entry keyed by cur.
StartMarker(t) ==
    IF t.kind = "skill" THEN <<"skills", SkillKey(t.key[1], t.key[2]), "effect">>
    ELSE <<"riposte_skill", "effect">>
SuccessorOf(t, cur) == Append(StartMarker(t), cur)
\* The chain of t before and after the call.
Original(t) == IF t.kind = "skill" THEN hero0.skills[t.key].effects ELSE hero0.riposte_skill.effects
Rebuilding(t) == IF t.kind = "skill" THEN hero.skills[t.key].effects ELSE hero.riposte_skill.effects
\* The walk of the chain of t has a first element.
HasStart(t) ==
    IF StartMarker(t) \in DOMAIN patch THEN patch[StartMarker(t)].tag = "Set" ELSE Original(t) # <<>>
\* The first element of the walk, when it has one.
WalkStart(t) ==
    IF StartMarker(t) \in DOMAIN patch THEN patch[StartMarker(t)].val.s ELSE Original(t)[1]
\* The walk goes on after cur.
HasNext(t, cur) ==
    IF SuccessorOf(t, cur) \in DOMAIN patch THEN patch[SuccessorOf(t, cur)].tag = "Set"
    ELSE \E i \in 1..(Len(Original(t)) - 1) :
            Original(t)[i] = cur /\ \A j \in 1..(i - 1) : Original(t)[j] # cur
\* The element after cur, when the walk goes on.
WalkNext(t, cur) ==
    IF SuccessorOf(t, cur) \in DOMAIN patch THEN patch[SuccessorOf(t, cur)].val.s
    ELSE LET i == CHOOSE i \in 1..Len(Original(t)) :
                    Original(t)[i] = cur /\ \A j \in 1..(i - 1) : Original(t)[j] # cur
         IN  Original(t)[i + 1]

\* C7: when the walk ends, patch_skill_effects replaces the chain by the
\* sequence of the walk: empty if the start marker is removed or there is
\* neither a patched nor an original first element; otherwise it starts with
\* the start marker's value, else the original first element; after cur comes
\* the value set at the entry keyed by cur, the chain ends if that entry is a
\* remove, and with no entry the element following cur in the original chain
\* comes next (end if none).  [A,B,C] with successor-of(A) = X and
\* successor-of(X) removed gives [A,X]; [A,B] with the start marker removed
\* gives [].
C7_ChainIsTheWalk ==
    \A t \in Targets :
        Rebuilt(t) =>
            LET e == Rebuilding(t)
            IN  /\ ~HasStart(t) => e = <<>>
                /\ HasStart(t) =>
                    /\ e # <<>>
                    /\ e[1] = WalkStart(t)
                    /\ \A i \in 1..(Len(e) - 1) : HasNext(t, e[i]) /\ e[i + 1] = WalkNext(t, e[i])
                    /\ ~HasNext(t, e[Len(e)])
                /\ ( /\ Original(t) = <<"A", "B", "C">>
                     /\ patch = (SuccessorOf(t, "A") :> Set(Str("X"))) @@ (SuccessorOf(t, "X") :> Removed)
                     => e = <<"A", "X">> )
                /\ ( Original(t) = <<"A", "B">> /\ patch = (StartMarker(t) :> Removed)
                     => e = <<>> )

\* C7 witness: apply_patch has returned on the chain [A,B,C] of the riposte
\* skill with successor-of(A) = X and successor-of(X) removed.
C7_Witness ==
    /\ pc = "done"
    /\ hero0.riposte_skill.effects = <<"A", "B", "C">>
    /\ patch = (<<"riposte_skill", "effect", "A">> :> Set(Str("X")))
                @@ (<<"riposte_skill", "effect", "X">> :> Removed)
    /\ hero.riposte_skill.effects = <<"A", "X">>

\* C8: when apply_patch meets a fatal condition on an entry of the patch, the
\* record is as it was before the call: no chain has been rewritten and no
\* other entry has been applied.
C8_FatalLeavesRecordUntouched ==
    pc = "panic" => hero = hero0

\* The entry <<path, change>> sets a sub-field of the bank `name` with the
\* sub-fields and kinds `kinds`, at an index within the bank.
IsBankSet(path, change, name, kinds) ==
    /\ Len(path) = 3 /\ path[1] = name
    /\ \E i \in 0..(BankSize - 1) : ToString(i) = path[2]
    /\ path[3] \in DOMAIN kinds
    /\ change.tag = "Set" /\ change.val.kind = kinds[path[3]]
\* What the bank must hold after the call: the values set by the entries of
\* the patch, every other sub-field as before.
ExpectedBank(bank, name, kinds) ==
    [i \in 0..(BankSize - 1) |->
        [f \in DOMAIN kinds |->
            IF <<name, ToString(i), f>> \in DOMAIN patch
               /\ IsBankSet(<<name, ToString(i), f>>, patch[<<name, ToString(i), f>>], name, kinds)
            THEN patch[<<name, ToString(i), f>>].val.n
            ELSE bank[i][f]]]

\* C9: for every index i in 0..4 and every weapon sub-field f, a set of v at
\* ["weapons", i, f] makes sub-field f of weapon i equal to v and leaves every
\* other sub-field of every weapon unchanged; the same for armours.
C9_BankSetHitsItsField ==
    /\ PanicOnEntry =>
            /\ ~IsBankSet(Head(rest), patch[Head(rest)], "weapons", WeaponKind)
            /\ ~IsBankSet(Head(rest), patch[Head(rest)], "armours", ArmourKind)
    /\ pc = "done" =>
            /\ hero.weapons = ExpectedBank(hero0.weapons, "weapons", WeaponKind)
            /\ hero.armours = ExpectedBank(hero0.armours, "armours", ArmourKind)

\* The entry <<path, change>> edits the key/value field path[3] of the skill
\* that flattening keys by path[2].
IsSkillFieldEdit(path, change) ==
    /\ Len(path) = 3 /\ path[1] = "skills" /\ path[3] # "effect"
    /\ change.tag = "Set" => change.val.kind = "String"
\* The key/value fields of the skill stored under k after the call: those of
\* the entries of the patch keyed for k changed, the others as before.
ExpectedOther(k) ==
    LET mine == {p \in DOMAIN patch :
                    IsSkillFieldEdit(p, patch[p]) /\ p[2] = SkillKey(k[1], k[2])}
        before == hero0.skills[k].other
    IN  [f \in (DOMAIN before \cup {p[3] : p \in {q \in mine : patch[q].tag = "Set"}})
                \ {p[3] : p \in {q \in mine : patch[q].tag = "Removed"}} |->
            IF \E p \in mine : p[3] = f THEN patch[<<"skills", SkillKey(k[1], k[2]), f>>].val.s
            ELSE before[f]]

\* C10: for every skill stored under (name, level), names with '_' included,
\* a patch entry whose second segment is "<name>_<level>" is applied to that
\* skill and to no other; apply is fatal only when the record holds no skill
\* with that key.
C10_SkillKeyRoundTrip ==
    /\ PanicOnEntry /\ IsSkillFieldEdit(Head(rest), patch[Head(rest)]) =>
            \A k \in DOMAIN hero0.skills : SkillKey(k[1], k[2]) # Head(rest)[2]
    /\ ( /\ pc = "done"
         /\ \A p \in DOMAIN patch :
                /\ IsSkillFieldEdit(p, patch[p])
                /\ \E k \in DOMAIN hero0.skills : SkillKey(k[1], k[2]) = p[2] )
       => \A k \in DOMAIN hero0.skills : hero.skills[k].other = ExpectedOther(k)

\* C11: applying the patch {["resistances", k]: set(v)}, k one of the eight
\* resistance names and v a float, yields a record whose resistance k is v,
\* with the seven other resistances and all other fields unchanged.
C11_ResistanceSet ==
    \A k \in ResistanceNames :
        ( /\ pc \in {"done", "panic"}
          /\ DOMAIN patch = {<<"resistances", k>>}
          /\ patch[<<"resistances", k>>].tag = "Set"
          /\ patch[<<"resistances", k>>].val.kind = "F32" )
        => /\ pc = "done"
           /\ hero = [hero0 EXCEPT !.resistances[k] = patch[<<"resistances", k>>].val.n]

\* C11 witness: apply_patch has returned from a set of the resistance "trap"
\* to a new value.
C11_Witness ==
    /\ pc = "done"
    /\ DOMAIN patch = {<<"resistances", "trap">>}
    /\ patch[<<"resistances", "trap">>] = Set(F32(7))
    /\ hero0.resistances["trap"] = 3
    /\ hero.resistances["trap"] = 7

\* The set-valued list fields of the claims on lists.
ListFields == {"tags", "extra_stack_limit"}
\* The patch of the present call is the one entry <<f, v>> on a list field.
IsListEdit(f, v) == f \in ListFields /\ DOMAIN patch = {<<f, v>>}
\* l is k without its first element equal to v.
IsWithoutFirst(l, k, v) ==
    \E i \in 1..Len(k) :
        /\ k[i] = v /\ \A j \in 1..(i - 1) : k[j] # v
        /\ l = [n \in 1..(Len(k) - 1) |-> IF n < i THEN k[n] ELSE k[n + 1]]
\* The elements of a list.
Members(l) == {l[i] : i \in 1..Len(l)}

\* C12: on tags and extra_stack_limit, an entry keyed by the string V with a
\* set of a unit value appends V at the end of the list; a remove deletes only
\* the first occurrence of V and keeps the other elements in order; a remove
\* when V is not in the list is fatal.
C12_ListEdit ==
    \A f \in ListFields : \A v \in ListElems :
        (pc \in {"done", "panic"} /\ IsListEdit(f, v)) =>
            LET change == patch[<<f, v>>]
            IN  /\ change = Set(Unit) => pc = "done" /\ hero[f] = Append(hero0[f], v)
                /\ (change = Removed /\ v \in Members(hero0[f])) =>
                        pc = "done" /\ IsWithoutFirst(hero[f], hero0[f], v)
                /\ (change = Removed /\ v \notin Members(hero0[f])) => pc = "panic"

\* C12 witness: a remove of "holy" has been applied to the tags
\* [holy, new, holy] and has left [new, holy].
C12_Witness ==
    /\ pc = "done"
    /\ IsListEdit("tags", "holy") /\ patch[<<"tags", "holy">>] = Removed
    /\ hero0.tags = <<"holy", "new", "holy">>
    /\ hero.tags = <<"new", "holy">>

\* C13: for every set-valued list L and every string V, in L or not, applying
\* a patch that sets V and then a patch that removes V yields a list with the
\* same membership as L.
C13_SetThenRemove ==
    \A f \in ListFields : \A v \in ListElems :
        ( /\ pc \in {"done", "panic"}
          /\ Len(history) = 1
          /\ history[1].patch = (<<f, v>> :> Set(Unit))
          /\ patch = (<<f, v>> :> Removed) )
        => /\ pc = "done"
           /\ Members(hero[f]) = Members(history[1].before[f])

\* C13 witness: V has been set and then removed on a list that held V before
\* and another element after it.
C13_Witness ==
    /\ pc = "done"
    /\ Len(history) = 1
    /\ history[1].before.tags = <<"holy", "new">>
    /\ history[1].patch = (<<"tags", "holy">> :> Set(Unit))
    /\ patch = (<<"tags", "holy">> :> Removed)
    /\ hero.tags = <<"new", "holy">>

\* The names of the field groups of the record.
FieldGroups ==
    {"resistances", "weapons", "armours", "skills", "riposte_skill", "move_skill", "tags",
     "extra_stack_limit", "deaths_door", "modes", "incompatible_party_member",
     "death_reaction", "other"}
\* The loop over the entries of apply_patch has gone past the entry at path p.
PassedOver(p) ==
    /\ pc \in {"entries", "done"} /\ queue = <<>>
    /\ p \in DOMAIN patch
    /\ \A i \in 1..Len(rest) : rest[i] # p

\* C14: apply_patch is fatal for every patch with an entry whose first path
\* segment is not the name of a field group: it never goes past such an entry
\* and never returns success on such a patch.
C14_UnknownSegmentFatal ==
    \A p \in DOMAIN patch :
        (p = <<>> \/ p[1] \notin FieldGroups) =>
            /\ ~PassedOver(p)
            /\ pc # "done"

\* C14 witness: apply_patch has applied an entry and then panicked on an
\* entry with an unknown first segment.
C14_Witness ==
    /\ PanicOnEntry
    /\ Head(rest)[1] \notin FieldGroups
    /\ hero # hero0

\* C15: flattening is injective on HeroInfo records: two records that differ
\* in the value of some field, the order or the multiplicity of the elements
\* of a list field such as tags included, have different flattened maps.
\* Stated on the record before a call of apply_patch and the record after it.
C15_FlatteningInjective ==
    (pc = "done" /\ hero # hero0) => ToMap(hero) # ToMap(hero0)

\* C16: for every non-empty conflict set, the resolution step returns a patch
\* that holds exactly one item change for each conflicted path and no path
\* outside the conflict set: once ask_for_resolve has been called, the patch
\* in hand has the conflicted paths as its paths.
C16_ResolveCoversConflicts ==
    (pc \notin {"submitted", "merged"} /\ unmerged # EmptyMap) => DOMAIN patch = DOMAIN unmerged

\* C17: try_merge_patches is a pure function of its input: the merged patch
\* and the conflict set it has returned, the order of the (source, change)
\* pairs of every conflict entry included, are those it returns for the same
\* change-sets under every order of iteration of its hash maps.
C17_MergeIsAFunction ==
    pc = "merged" =>
        \A ord \in IterationOrders({q \in DOMAIN Regroup(patches) : ~IsPlain(q)}) :
            /\ TryMergePatches(patches, ord).merged = merged
            /\ TryMergePatches(patches, ord).unmerged = unmerged

\* C18: chain reconstruction terminates for every original chain and every
\* patch: a walk of patch_skill_effects that has begun comes to its end, also
\* when the original chain holds an element twice or the successor entries
\* of the patch form a cycle.
C18_WalkTerminates == (pc = "walk") ~> (pc # "walk")

\* The path is the start marker or a successor entry of the chain of t.
IsChainPath(t, p) ==
    \/ p = StartMarker(t)
    \/ Len(p) = Len(StartMarker(t)) + 1 /\ SubSeq(p, 1, Len(p) - 1) = StartMarker(t)

\* C19: a patch entry that edits a chain changes only that skill's effect
\* sequence: after a call of apply_patch whose patch holds chain entries
\* only, the key/value fields of every skill are what they were before it.
C19_ChainEntryLeavesFieldsAlone ==
    ( /\ pc = "done"
      /\ \A p \in DOMAIN patch : \E t \in Targets : IsChainPath(t, p) )
    => \A t \in Targets : TargetSkill(hero, t).other = TargetSkill(hero0, t).other

\* The path under which try_merge_patches emits the edit of the chain of t.
MergedChainPath(t) ==
    IF t.kind = "skill" THEN SkillPath(SkillKey(t.key[1], t.key[2])) ELSE RipostePath

\* C20: a chain edit that try_merge_patches accepts into the merged patch
\* takes effect when the merged patch is applied: when one source sets the
\* start of the chain of a skill to an element and the merge accepts it, the
\* chain of that skill starts with the element after apply_patch on the
\* merged patch.
C20_MergedChainEditTakesEffect ==
    \A t \in Targets :
        ( /\ pc = "done" /\ patch = merged
          /\ MergedChainPath(t) \in DOMAIN merged
          /\ merged[MergedChainPath(t)].tag = "Set"
          /\ \E i \in 1..Len(patches) :
                /\ MergedChainPath(t) \in DOMAIN patches[i][2]
                /\ patches[i][2][MergedChainPath(t)] = merged[MergedChainPath(t)] )
        => /\ Rebuilding(t) # <<>>
           /\ Rebuilding(t)[1] = merged[MergedChainPath(t)].val.s

\* The call is over and its patch was the one entry `change` at the path p.
IsOneEntry(p, change) ==
    /\ pc \in {"done", "panic"}
    /\ DOMAIN patch = {p}
    /\ patch[p] = change

\* The entries of the catch-all map under the keys other than k are those of before the call.
OtherKeysKept(k) ==
    /\ DOMAIN hero.other \ {k} = DOMAIN hero0.other \ {k}
    /\ \A j \in DOMAIN hero.other \ {k} : hero.other[j] = hero0.other[j]

\* C21: for a catch-all entry flattened at ["other", outer, inner, V], set
\* (unit value) at that path adds V to the list under the key (outer, inner),
\* remove at that path takes V out of that list and keeps its other elements,
\* and no entry is created or deleted under any other key.
C21_CatchAllEdit ==
    \A p \in DOMAIN patch :
        (Len(p) = 4 /\ p[1] = "other") =>
            LET k == <<p[2], p[3]>>
                v == p[4]
            IN  /\ IsOneEntry(p, Set(Unit)) =>
                        /\ pc = "done"
                        /\ k \in DOMAIN hero.other
                        /\ hero.other[k] = Append(OrDefault(hero0.other, k)[k], v)
                        /\ OtherKeysKept(k)
                /\ ( /\ IsOneEntry(p, Removed)
                     /\ k \in DOMAIN hero0.other
                     /\ v \in Members(hero0.other[k]) ) =>
                        /\ pc = "done"
                        /\ IF k \in DOMAIN hero.other
                           THEN IsWithoutFirst(hero.other[k], hero0.other[k], v)
                           ELSE hero0.other[k] = <<v>>
                        /\ OtherKeysKept(k)

\* The patch of the call is one entry keyed by a scalar path of the
\* flattening of the record, setting the value the flattening holds there.
IsFlattenedPatch ==
    \E p \in ScalarPaths(hero0) : DOMAIN patch = {p} /\ patch[p] = Set(ToMap(hero0)[p])

\* C22: every path produced by HeroInfo::to_map has as its first segment one
\* of the field-group names on which apply_patch dispatches, so a patch
\* keyed by a flattened scalar path of the record, setting the flattened
\* value, is routed to its field and the call succeeds.
C22_FlattenedPathsDispatch ==
    /\ pc = "start" => \A p \in DOMAIN ToMap(hero) : p # <<>> /\ p[1] \in FieldGroups
    /\ (pc \in {"done", "panic"} /\ IsFlattenedPatch) => pc = "done"

\* C23: for each list L of deaths_door, set (unit value) at
\* ["deaths_door", L, V] succeeds, with no assertion of the code violated
\* whatever the build, and appends V to L; the two other lists and the rest
\* of the record are left as they were.
C23_DeathsDoorSet ==
    \A p \in DOMAIN patch :
        ( /\ Len(p) = 3 /\ p[1] = "deaths_door" /\ p[2] \in DeathsDoorLists
          /\ IsOneEntry(p, Set(Unit)) )
        => /\ pc = "done"
           /\ hero = [hero0 EXCEPT !.deaths_door[p[2]] = Append(hero0.deaths_door[p[2]], p[3])]
=============================================================================
